---- MODULE Spec2Model ----
(***************************************************************************)
(* A model of the opensky-network-client: the request/response pipeline    *)
(* (RequestProcessor.process_request), the response models' from_json      *)
(* constructors and the OpenskyNetworkClient operations.                   *)
(*                                                                         *)
(* Python values are tagged records [t |-> tag, ...]:                      *)
(*   None/null  [t |-> "null"]                                             *)
(*   bool       [t |-> "bool", v |-> TRUE]                                 *)
(*   int        [t |-> "num",  v |-> 5]                                    *)
(*   str        [t |-> "str",  v |-> "a"]                                  *)
(*   list       [t |-> "list", v |-> <<...>>]                              *)
(*   dict       [t |-> "map",  v |-> [key |-> value, ...]]                 *)
(*   model obj  [t |-> "obj",  cls |-> "FlightConnection", f |-> [...]]    *)
(*   exception  [t |-> "exc",  cls |-> "APIError", ...]                    *)
(*   datetime   [t |-> "datetime", us |-> microseconds since the epoch]    *)
(*   generator  [t |-> "gen",  cls |-> class, src |-> <<...>>]             *)
(* The JSON numbers of the model are integers.                             *)
(***************************************************************************)
EXTENDS Integers, Sequences, FiniteSets, TLC

VARIABLES
    op,         \* the operation called: "process_request", a client method,
                \* a model's from_json or the BoundingBox constructor
    args,       \* the arguments of the call
    response,   \* the response the transport answers the call with
    calls,      \* the transport calls made by the last call, in order
    access,     \* the accesses to the response made by the last call, in order
    outcome,    \* how the last call ended: a returned value or a raised error
    ncalls,     \* transport calls made since construction
    ninvoked,   \* calls ended since construction
    client,     \* the client's fields
    held,       \* the bounding box the caller holds: the last one constructed
    clock       \* the current time, in seconds since the epoch

vars ==
    <<op, args, response, calls, access, outcome, ncalls, ninvoked, client, held, clock>>

----------------------------------------------------------------------------
(* Bounds of the model *)

\* longest list body the transport answers with
MaxLen == 2
\* longest sequence of calls on one client
MaxInvocations == 3
\* most elements a state vector list has after its 17 fields
MaxExtra == 2

----------------------------------------------------------------------------
(* Python values *)

None == [t |-> "null"]
Bool(b) == [t |-> "bool", v |-> b]
Num(n) == [t |-> "num", v |-> n]
Str(s) == [t |-> "str", v |-> s]
List(s) == [t |-> "list", v |-> s]
Map(m) == [t |-> "map", v |-> m]
EmptyMap == Map(<<>>)
Obj(cls, fields) == [t |-> "obj", cls |-> cls, f |-> fields]

MicrosPerSecond == 1000000

\* a datetime, as the microseconds of its instant since the epoch
Datetime(us) == [t |-> "datetime", us |-> us]

\* Python truth value of x, as tested by `if x` / `x and y`
Truthy(x) ==
    CASE x.t = "null" -> FALSE
      [] x.t = "bool" -> x.v
      [] x.t = "num"  -> x.v # 0
      [] x.t = "str"  -> x.v # ""
      [] x.t = "list" -> Len(x.v) > 0
      [] x.t = "map"  -> DOMAIN x.v # {}
      [] OTHER        -> TRUE

RECURSIVE SetToSeq(_)
SetToSeq(S) ==
    IF S = {} THEN <<>>
    ELSE LET e == CHOOSE e \in S : TRUE IN <<e>> \o SetToSeq(S \ {e})

\* the characters of a str; the str values of the model that are iterated
\* have at most one character
Chars(s) == IF s = "" THEN <<>> ELSE <<Str(s)>>

Iterable(x) == x.t \in {"list", "map", "str", "gen"}

\* the elements `for r in x` yields: the elements of a list, the keys of a
\* dict (their order is the dict's insertion order, here a fixed one), the
\* characters of a str
Iter(x) ==
    CASE x.t = "list" -> x.v
      [] x.t = "map"  -> [i \in 1..Cardinality(DOMAIN x.v) |-> Str(SetToSeq(DOMAIN x.v)[i])]
      [] x.t = "str"  -> Chars(x.v)
      [] OTHER        -> <<>>

\* F(v), with v evaluated once
Bind(v, F(_)) == CHOOSE r \in {F(x) : x \in {v}} : TRUE

\* the result of an evaluation that may raise: err = "" when it returned val
Ok(v) == [err |-> "", val |-> v]
Err(e) == [err |-> e, val |-> None]

\* d[key] for a parsed JSON value d
Subscript(d, key) ==
    IF d.t # "map" THEN Err("TypeError")
    ELSE IF key \notin DOMAIN d.v THEN Err("KeyError")
    ELSE Ok(d.v[key])

----------------------------------------------------------------------------
(* The response models (opensky_network_client/models.py) *)

StateVectorArity == 17

\* StateVector.from_json with longitude and latitude filled from each other's
\* position
StateVector_from_json_lat_lon(state_vector_list) ==
    IF ~Iterable(state_vector_list) THEN Err("TypeError")
    ELSE LET a == Iter(state_vector_list) IN
         IF Len(a) < StateVectorArity THEN Err("TypeError")
         ELSE Ok(Obj("StateVector",
                 [icao24 |-> a[1],
                  callsign |-> a[2],
                  origin_country |-> a[3],
                  time_position_in_sec |-> a[4],
                  last_contact_in_sec |-> a[5],
                  longitude |-> a[7],
                  latitude |-> a[6],
                  baro_altitude_in_m |-> a[8],
                  on_ground |-> a[9],
                  velocity_in_m_per_sec |-> a[10],
                  true_track |-> a[11],
                  vertical_rate_in_m_per_sec |-> a[12],
                  sensors |-> a[13],
                  geo_altitude_in_m |-> a[14],
                  squawk |-> a[15],
                  spi |-> a[16],
                  position_source |-> a[17],
                  rest_args |-> SubSeq(a, StateVectorArity + 1, Len(a))]))

\* StateVector.from_json of a class whose __init__ takes no *args
StateVector_from_json_strict(state_vector_list) ==
    IF ~Iterable(state_vector_list) THEN Err("TypeError")
    ELSE LET a == Iter(state_vector_list) IN
         IF Len(a) # StateVectorArity THEN Err("TypeError")
         ELSE Ok(Obj("StateVector",
                 [icao24 |-> a[1],
                  callsign |-> a[2],
                  origin_country |-> a[3],
                  time_position_in_sec |-> a[4],
                  last_contact_in_sec |-> a[5],
                  longitude |-> a[6],
                  latitude |-> a[7],
                  baro_altitude_in_m |-> a[8],
                  on_ground |-> a[9],
                  velocity_in_m_per_sec |-> a[10],
                  true_track |-> a[11],
                  vertical_rate_in_m_per_sec |-> a[12],
                  sensors |-> a[13],
                  geo_altitude_in_m |-> a[14],
                  squawk |-> a[15],
                  spi |-> a[16],
                  position_source |-> a[17],
                  rest_args |-> <<>>]))

\* StateVector.from_json: cls(*state_vector_list); the parameters are filled
\* by position and the elements after the 17th go to *args
StateVector_from_json(state_vector_list) ==
    IF ~Iterable(state_vector_list) THEN Err("TypeError")
    ELSE LET a == Iter(state_vector_list) IN
         IF Len(a) < StateVectorArity THEN Err("TypeError")
         ELSE Ok(Obj("StateVector",
                 [icao24 |-> a[1],
                  callsign |-> a[2],
                  origin_country |-> a[3],
                  time_position_in_sec |-> a[4],
                  last_contact_in_sec |-> a[5],
                  longitude |-> a[6],
                  latitude |-> a[7],
                  baro_altitude_in_m |-> a[8],
                  on_ground |-> a[9],
                  velocity_in_m_per_sec |-> a[10],
                  true_track |-> a[11],
                  vertical_rate_in_m_per_sec |-> a[12],
                  sensors |-> a[13],
                  geo_altitude_in_m |-> a[14],
                  squawk |-> a[15],
                  spi |-> a[16],
                  position_source |-> a[17],
                  rest_args |-> SubSeq(a, StateVectorArity + 1, Len(a))]))

\* the results of from_json on the elements of s, up to the first that raises
RECURSIVE StateVectors(_)
StateVectors(s) ==
    IF s = <<>> THEN Ok(<<>>)
    ELSE Bind(StateVector_from_json(Head(s)), LAMBDA h :
         IF h.err # "" THEN h
         ELSE Bind(StateVectors(Tail(s)), LAMBDA r :
              IF r.err # "" THEN r ELSE Ok(<<h.val>> \o r.val)))

\* datetime.fromtimestamp(time_in_sec), the calendar value of that instant
fromtimestamp(time_in_sec) ==
    CASE time_in_sec.t = "num"  -> Ok(Datetime(time_in_sec.v * MicrosPerSecond))
      [] time_in_sec.t = "bool" -> Ok(Datetime(IF time_in_sec.v THEN MicrosPerSecond ELSE 0))
      [] OTHER                  -> Err("TypeError")

\* States.from_json with the state vectors built from the last list to the first
States_from_json_reversed(states_dict) ==
    LET tm == Subscript(states_dict, "time") IN
    IF tm.err # "" THEN tm
    ELSE LET st == Subscript(states_dict, "states") IN
         IF st.err # "" THEN st
         ELSE IF ~Iterable(st.val) THEN Err("TypeError")
         ELSE Bind(StateVectors(Iter(st.val)), LAMBDA svs :
              IF svs.err # "" THEN svs
              ELSE LET dt == fromtimestamp(tm.val) IN
                   IF dt.err # "" THEN dt
                   ELSE Ok(Obj("States",
                           [time_in_sec |-> tm.val,
                            states |-> List([i \in 1..Len(svs.val) |->
                                                svs.val[Len(svs.val) + 1 - i]]),
                            time |-> dt.val])))

\* States.from_json, with States.__init__
States_from_json(states_dict) ==
    LET tm == Subscript(states_dict, "time") IN
    IF tm.err # "" THEN tm
    ELSE LET st == Subscript(states_dict, "states") IN
         IF st.err # "" THEN st
         ELSE IF ~Iterable(st.val) THEN Err("TypeError")
         ELSE Bind(StateVectors(Iter(st.val)), LAMBDA svs :
              IF svs.err # "" THEN svs
              ELSE LET dt == fromtimestamp(tm.val) IN
                   IF dt.err # "" THEN dt
                   ELSE Ok(Obj("States",
                           [time_in_sec |-> tm.val,
                            states |-> List(svs.val),
                            time |-> dt.val])))

FlightConnectionKeys ==
    {"icao24", "firstSeen", "estDepartureAirport", "lastSeen", "estArrivalAirport",
     "callsign", "estDepartureAirportHorizDistance", "estDepartureAirportVertDistance",
     "estArrivalAirportHorizDistance", "estArrivalAirportVertDistance",
     "departureAirportCandidatesCount", "arrivalAirportCandidatesCount"}

\* FlightConnection.from_json with first_seen and last_seen read from each
\* other's key
FlightConnection_from_json_seen_swapped(arrival_dict) ==
    IF arrival_dict.t # "map" THEN Err("TypeError")
    ELSE IF ~(FlightConnectionKeys \subseteq DOMAIN arrival_dict.v) THEN Err("KeyError")
    ELSE LET d == arrival_dict.v IN
         Ok(Obj("FlightConnection",
            [icao24 |-> d["icao24"],
             first_seen |-> d["lastSeen"],
             est_departure_airport |-> d["estDepartureAirport"],
             last_seen |-> d["firstSeen"],
             est_arrival_airport |-> d["estArrivalAirport"],
             callsign |-> d["callsign"],
             est_departure_airport_horiz_distance |-> d["estDepartureAirportHorizDistance"],
             est_departure_airport_vert_distance |-> d["estDepartureAirportVertDistance"],
             est_arrival_airport_horiz_distance |-> d["estArrivalAirportHorizDistance"],
             est_arrival_airport_vert_distance |-> d["estArrivalAirportVertDistance"],
             departure_airport_candidates_count |-> d["departureAirportCandidatesCount"],
             arrival_airport_candidates_count |-> d["arrivalAirportCandidatesCount"]]))

\* FlightConnection.from_json
FlightConnection_from_json(arrival_dict) ==
    IF arrival_dict.t # "map" THEN Err("TypeError")
    ELSE IF ~(FlightConnectionKeys \subseteq DOMAIN arrival_dict.v) THEN Err("KeyError")
    ELSE LET d == arrival_dict.v IN
         Ok(Obj("FlightConnection",
            [icao24 |-> d["icao24"],
             first_seen |-> d["firstSeen"],
             est_departure_airport |-> d["estDepartureAirport"],
             last_seen |-> d["lastSeen"],
             est_arrival_airport |-> d["estArrivalAirport"],
             callsign |-> d["callsign"],
             est_departure_airport_horiz_distance |-> d["estDepartureAirportHorizDistance"],
             est_departure_airport_vert_distance |-> d["estDepartureAirportVertDistance"],
             est_arrival_airport_horiz_distance |-> d["estArrivalAirportHorizDistance"],
             est_arrival_airport_vert_distance |-> d["estArrivalAirportVertDistance"],
             departure_airport_candidates_count |-> d["departureAirportCandidatesCount"],
             arrival_airport_candidates_count |-> d["arrivalAirportCandidatesCount"]]))

PositionKeys == {"longitude", "latitude", "altitude", "reasonable"}

\* Position.from_json
Position_from_json(position_dict) ==
    IF position_dict.t # "map" THEN Err("TypeError")
    ELSE IF ~(PositionKeys \subseteq DOMAIN position_dict.v) THEN Err("KeyError")
    ELSE LET d == position_dict.v IN
         Ok(Obj("Position",
            [longitude |-> d["longitude"],
             latitude |-> d["latitude"],
             altitude |-> d["altitude"],
             reasonable |-> d["reasonable"]]))

AirportKeys ==
    {"icao", "iata", "name", "city", "type", "position", "continent", "country",
     "region", "municipality", "gpsCode", "homepage", "wikipedia"}

\* Airport.from_json with the nested position mapping stored as it is
Airport_from_json_raw_position(airport_dict) ==
    IF airport_dict.t # "map" THEN Err("TypeError")
    ELSE IF ~(AirportKeys \subseteq DOMAIN airport_dict.v) THEN Err("KeyError")
    ELSE Ok(Obj("Airport", [k \in AirportKeys |-> airport_dict.v[k]]))

\* Airport.from_json; the keys are read in the order of the arguments, so a
\* missing key before "position" raises before Position.from_json is called
Airport_from_json(airport_dict) ==
    IF airport_dict.t # "map" THEN Err("TypeError")
    ELSE LET d == airport_dict.v IN
         IF ~({"icao", "iata", "name", "city", "type", "position"} \subseteq DOMAIN d)
         THEN Err("KeyError")
         ELSE LET pos == Position_from_json(d["position"]) IN
              IF pos.err # "" THEN pos
              ELSE IF ~(AirportKeys \subseteq DOMAIN d) THEN Err("KeyError")
              ELSE Ok(Obj("Airport",
                      [icao |-> d["icao"],
                       iata |-> d["iata"],
                       name |-> d["name"],
                       city |-> d["city"],
                       type |-> d["type"],
                       position |-> pos.val,
                       continent |-> d["continent"],
                       country |-> d["country"],
                       region |-> d["region"],
                       municipality |-> d["municipality"],
                       gpsCode |-> d["gpsCode"],
                       homepage |-> d["homepage"],
                       wikipedia |-> d["wikipedia"]]))

\* _validate_lat with the limits themselves refused
validate_lat_exclusive(lat) == IF lat <= -90 \/ lat >= 90 THEN Err("ValueError") ELSE Ok(lat)

\* BoundingBox._validate_lat
validate_lat(lat) == IF lat < -90 \/ lat > 90 THEN Err("ValueError") ELSE Ok(lat)

\* _validate_lon with the lower limit not tested
validate_lon_upper_only(lon) == IF lon > 180 THEN Err("ValueError") ELSE Ok(lon)

\* BoundingBox._validate_lon
validate_lon(lon) == IF lon < -180 \/ lon > 180 THEN Err("ValueError") ELSE Ok(lon)

\* BoundingBox.__init__: the four bounds are validated in the order lamin,
\* lamax, lomin, lomax, and the first invalid one ends the construction
BoundingBox(lamin, lamax, lomin, lomax) ==
    LET la1 == validate_lat(lamin)
        la2 == validate_lat(lamax)
        lo1 == validate_lon(lomin)
        lo2 == validate_lon(lomax)
    IN  IF la1.err # "" THEN Err(la1.err)
        ELSE IF la2.err # "" THEN Err(la2.err)
        ELSE IF lo1.err # "" THEN Err(lo1.err)
        ELSE IF lo2.err # "" THEN Err(lo2.err)
        ELSE Ok(Obj("BoundingBox", [lamin |-> Num(la1.val), lamax |-> Num(la2.val),
                                    lomin |-> Num(lo1.val), lomax |-> Num(lo2.val)]))

\* BaseModel.deserialize, the capability process_request uses: the model
\* class builds an instance from a parsed JSON value
deserialize(response_class, r) ==
    CASE response_class = "States"           -> States_from_json(r)
      [] response_class = "FlightConnection" -> FlightConnection_from_json(r)
      [] response_class = "Airport"          -> Airport_from_json(r)
      [] OTHER                               -> Err("AttributeError")

----------------------------------------------------------------------------
(* The transport and its responses *)

\* a keyword argument the caller does not pass
NotPassed == [t |-> "absent"]

\* a body that is not JSON: response.json() raises
InvalidJSON == [t |-> "invalid"]

\* response.json()
json_of(resp) == IF resp.body = InvalidJSON THEN Err("ValueError") ELSE Ok(resp.body)

\* APIError.from_response(response): the error carries the response's status
APIError_from_response(resp) ==
    [t |-> "exc", cls |-> "APIError", status_code |-> resp.status_code]

Exception(cls) == [t |-> "exc", cls |-> cls]

\* how a call ends
Return(v) == [kind |-> "return", value |-> v]
Raise(e) == [kind |-> "raise", value |-> e]

----------------------------------------------------------------------------
(* RequestProcessor.process_request (base/request_processor.py) *)

SupportedMethods == {"GET", "POST", "DELETE", "PUT"}

\* the error of the final else branch of the dispatch
UnsupportedMethod == "NotImplementedError"

\* an unknown method sent as a GET
send_request_default_get(method, path, extra_params, json) ==
    <<[verb |-> IF method = "POST" THEN "post"
                ELSE IF method = "DELETE" THEN "delete"
                ELSE IF method = "PUT" THEN "put" ELSE "get",
       path |-> path,
       params |-> IF method \in {"POST", "DELETE", "PUT"} THEN NotPassed
                  ELSE IF Truthy(extra_params) THEN extra_params ELSE EmptyMap,
       json |-> json]>>

\* the query parameters passed with every verb
send_request_params_always(method, path, extra_params, json) ==
    IF method \in SupportedMethods
    THEN <<[verb |-> IF method = "POST" THEN "post"
                     ELSE IF method = "DELETE" THEN "delete"
                     ELSE IF method = "PUT" THEN "put" ELSE "get",
            path |-> path,
            params |-> IF Truthy(extra_params) THEN extra_params ELSE EmptyMap,
            json |-> json]>>
    ELSE <<>>

\* the request repeated once
send_request_retried(method, path, extra_params, json) ==
    IF method \in SupportedMethods
    THEN LET c == [verb |-> "get", path |-> path, params |-> EmptyMap, json |-> json]
         IN  <<c, c>>
    ELSE <<>>

\* lines 68-77: the call made on the request handler, <<>> when the method
\* is none of the four
send_request(method, path, extra_params, json) ==
    CASE method = "GET" ->
            <<[verb |-> "get", path |-> path,
               params |-> IF Truthy(extra_params) THEN extra_params ELSE EmptyMap,
               json |-> json]>>
      [] method = "POST" ->
            <<[verb |-> "post", path |-> path, params |-> NotPassed, json |-> json]>>
      [] method = "DELETE" ->
            <<[verb |-> "delete", path |-> path, params |-> NotPassed, json |-> json]>>
      [] method = "PUT" ->
            <<[verb |-> "put", path |-> path, params |-> NotPassed, json |-> json]>>
      [] OTHER -> <<>>

\* only the 5xx statuses taken for errors
status_accepted_below_500(status_code) == status_code < 500

\* every 2xx status taken for a success
status_accepted_any_2xx(status_code) == status_code >= 200 /\ status_code < 300

\* line 79: the status codes that are not an error
status_accepted(status_code) == status_code \in {200, 201, 204}

\* response.json() called whatever the length of the content
parse_body_unguarded(resp) == [r |-> json_of(resp), ev |-> <<"json">>]

\* line 82: result = response.json() if len(response.content) > 0 else None
parse_body(resp) ==
    IF resp.content > 0
    THEN [r |-> json_of(resp), ev |-> <<"content", "json">>]
    ELSE [r |-> Ok(None), ev |-> <<"content">>]

\* a generator expression (response_class.deserialize(r) for r in src): no
\* element is deserialized until the generator is consumed
Generator(response_class, src) == [t |-> "gen", cls |-> response_class, src |-> src]

Reverse(s) == [i \in 1..Len(s) |-> s[Len(s) + 1 - i]]

\* the elements deserialized from the last to the first
convert_result_reversed(many, response_class, result) ==
    IF response_class # "None" /\ Truthy(result)
    THEN IF many
         THEN IF Iterable(result)
              THEN [r |-> Ok(Generator(response_class, Reverse(Iter(result)))), ev |-> <<>>]
              ELSE [r |-> Err("TypeError"), ev |-> <<>>]
         ELSE [r |-> deserialize(response_class, result), ev |-> <<"deserialize">>]
    ELSE [r |-> Ok(result), ev |-> <<>>]

\* lines 84-88
convert_result(many, response_class, result) ==
    IF response_class # "None" /\ Truthy(result)
    THEN IF many
         THEN IF Iterable(result)
              THEN [r |-> Ok(Generator(response_class, Iter(result))), ev |-> <<>>]
              ELSE [r |-> Err("TypeError"), ev |-> <<>>]
         ELSE [r |-> deserialize(response_class, result), ev |-> <<"deserialize">>]
    ELSE [r |-> Ok(result), ev |-> <<>>]

\* consuming a generator: the elements are deserialized in order and the
\* first failure ends it
RECURSIVE consume(_, _)
consume(response_class, src) ==
    IF src = <<>> THEN [r |-> Ok(<<>>), ev |-> <<>>]
    ELSE Bind(deserialize(response_class, Head(src)), LAMBDA h :
         IF h.err # "" THEN [r |-> h, ev |-> <<"deserialize">>]
         ELSE Bind(consume(response_class, Tail(src)), LAMBDA rest :
              [r |-> IF rest.r.err # "" THEN rest.r ELSE Ok(<<h.val>> \o rest.r.val),
               ev |-> <<"deserialize">> \o rest.ev]))

\* list(x)
list_of(x) ==
    CASE x.t = "gen" ->
            Bind(consume(x.cls, x.src), LAMBDA c :
            [r |-> IF c.r.err # "" THEN c.r ELSE Ok(List(c.r.val)), ev |-> c.ev])
      [] Iterable(x) -> [r |-> Ok(List(Iter(x))), ev |-> <<>>]
      [] OTHER -> [r |-> Err("TypeError"), ev |-> <<>>]

\* return result: the generator is handed to the caller unconsumed
final_result_lazy(many, result) == [r |-> Ok(result), ev |-> <<>>]

\* list(result) if many else result
final_result_unguarded(many, result) ==
    IF many THEN list_of(result) ELSE [r |-> Ok(result), ev |-> <<>>]

\* line 90: return list(result) if many and result else result
final_result(many, result) ==
    IF many /\ Truthy(result) THEN list_of(result) ELSE [r |-> Ok(result), ev |-> <<>>]

Ended(sent, ev, out) == [calls |-> sent, access |-> ev, outcome |-> out]

\* process_request with the body parsed before the status code is tested
process_request_parse_first(method, path, extra_params, json, many, response_class, resp) ==
    Bind(send_request(method, path, extra_params, json), LAMBDA sent :
    IF sent = <<>> THEN Ended(<<>>, <<>>, Raise(Exception(UnsupportedMethod)))
    ELSE Bind(parse_body(resp), LAMBDA parsed :
         IF parsed.r.err # ""
         THEN Ended(sent, parsed.ev, Raise(Exception(parsed.r.err)))
         ELSE IF ~status_accepted(resp.status_code)
         THEN Ended(sent, parsed.ev \o <<"status_code">>, Raise(APIError_from_response(resp)))
         ELSE Bind(convert_result(many, response_class, parsed.r.val), LAMBDA conv :
              IF conv.r.err # ""
              THEN Ended(sent, parsed.ev \o <<"status_code">> \o conv.ev,
                         Raise(Exception(conv.r.err)))
              ELSE Bind(final_result(many, conv.r.val), LAMBDA fin :
                   Ended(sent, parsed.ev \o <<"status_code">> \o conv.ev \o fin.ev,
                         IF fin.r.err # "" THEN Raise(Exception(fin.r.err))
                         ELSE Return(fin.r.val))))))

\* the whole of process_request, answered by the transport with resp
process_request(method, path, extra_params, json, many, response_class, resp) ==
    Bind(send_request(method, path, extra_params, json), LAMBDA sent :
    IF sent = <<>> THEN Ended(<<>>, <<>>, Raise(Exception(UnsupportedMethod)))
    ELSE IF ~status_accepted(resp.status_code)
    THEN Ended(sent, <<"status_code">>, Raise(APIError_from_response(resp)))
    ELSE Bind(parse_body(resp), LAMBDA parsed :
         IF parsed.r.err # ""
         THEN Ended(sent, <<"status_code">> \o parsed.ev, Raise(Exception(parsed.r.err)))
         ELSE Bind(convert_result(many, response_class, parsed.r.val), LAMBDA conv :
              IF conv.r.err # ""
              THEN Ended(sent, <<"status_code">> \o parsed.ev \o conv.ev,
                         Raise(Exception(conv.r.err)))
              ELSE Bind(final_result(many, conv.r.val), LAMBDA fin :
                   Ended(sent, <<"status_code">> \o parsed.ev \o conv.ev \o fin.ev,
                         IF fin.r.err # "" THEN Raise(Exception(fin.r.err))
                         ELSE Return(fin.r.val))))))

----------------------------------------------------------------------------
(* OpenskyNetworkClient (opensky_network_client/opensky_network.py) *)

\* the fields __init__ sets
NewClient ==
    [request_handler |-> "request_handler",
     url_states |-> "api/states/all/",
     url_flights_arrival |-> "api/flights/arrival/",
     url_flights_departure |-> "api/flights/departure/"]

\* the path of the airport lookup
url_airport == "api/airports/"

\* the seconds since the epoch rounded down instead of truncated
int_timestamp_floor(d) == Num(d.us \div MicrosPerSecond)

\* int(timestamp.timestamp()): the seconds since the epoch, truncated toward 0
int_timestamp(d) ==
    IF d.us >= 0 THEN Num(d.us \div MicrosPerSecond)
    ELSE Num(-((-d.us) \div MicrosPerSecond))

\* if isinstance(x, datetime): x = int(x.timestamp())
normalize_timestamp(x) == IF x.t = "datetime" THEN int_timestamp(x) ELSE x

\* dict.update
Update(m, n) ==
    [k \in (DOMAIN m) \cup (DOMAIN n) |-> IF k \in DOMAIN n THEN n[k] ELSE m[k]]

\* BoundingBox.to_json with lamax read from the wrong field
BoundingBox_to_json_lamin_twice(bbox) ==
    [lamin |-> bbox.f.lamin, lamax |-> bbox.f.lamin,
     lomin |-> bbox.f.lomin, lomax |-> bbox.f.lomax]

\* BoundingBox.to_json
BoundingBox_to_json(bbox) ==
    [lamin |-> bbox.f.lamin, lamax |-> bbox.f.lamax,
     lomin |-> bbox.f.lomin, lomax |-> bbox.f.lomax]

\* line 55: timestamp = 0 when the caller passes none
default_timestamp(timestamp) == IF timestamp = NotPassed THEN Num(0) ELSE timestamp

\* lines 64-75 of get_states: the query parameters
states_params(timestamp, icao24, bbox) ==
    LET p1 == [time |-> normalize_timestamp(timestamp)]
        p2 == IF icao24 # None THEN Update(p1, [icao24 |-> icao24]) ELSE p1
    IN  IF bbox # None THEN Update(p2, BoundingBox_to_json(bbox)) ELSE p2

\* _prepare_flight_connection_parameters with end converted only when begin is
\* a datetime
prepare_flight_connection_parameters_joint(airport, begin, end) ==
    [airport |-> airport,
     begin |-> normalize_timestamp(begin),
     end |-> IF begin.t = "datetime" THEN normalize_timestamp(end) ELSE end]

\* _prepare_flight_connection_parameters
prepare_flight_connection_parameters(airport, begin, end) ==
    [airport |-> airport,
     begin |-> normalize_timestamp(begin),
     end |-> normalize_timestamp(end)]

\* perform_request, the request processor's entry point the client calls
perform_request(method, path, extra_params, many, response_class, resp) ==
    process_request(method, path, extra_params, None, many, response_class, resp)

get_states(self, timestamp, icao24, bbox, resp) ==
    perform_request("GET", self.url_states,
                    Map(states_params(default_timestamp(timestamp), icao24, bbox)),
                    FALSE, "States", resp)

\* get_flight_arrivals sent to the path of the departures
get_flight_arrivals_departure_path(self, airport, begin, end, resp) ==
    perform_request("GET", self.url_flights_departure,
                    Map(prepare_flight_connection_parameters(airport, begin, end)),
                    TRUE, "FlightConnection", resp)

get_flight_arrivals(self, airport, begin, end, resp) ==
    perform_request("GET", self.url_flights_arrival,
                    Map(prepare_flight_connection_parameters(airport, begin, end)),
                    TRUE, "FlightConnection", resp)

get_flight_departures(self, airport, begin, end, resp) ==
    perform_request("GET", self.url_flights_departure,
                    Map(prepare_flight_connection_parameters(airport, begin, end)),
                    TRUE, "FlightConnection", resp)

get_airport(self, icao, resp) ==
    perform_request("GET", url_airport, Map([icao |-> icao]), FALSE, "Airport", resp)

\* the client methods called with json=True: the same request, made with no
\* response class
get_states_json(self, timestamp, icao24, bbox, resp) ==
    perform_request("GET", self.url_states,
                    Map(states_params(default_timestamp(timestamp), icao24, bbox)),
                    FALSE, "None", resp)

get_flight_arrivals_json(self, airport, begin, end, resp) ==
    perform_request("GET", self.url_flights_arrival,
                    Map(prepare_flight_connection_parameters(airport, begin, end)),
                    TRUE, "None", resp)

get_flight_departures_json(self, airport, begin, end, resp) ==
    perform_request("GET", self.url_flights_departure,
                    Map(prepare_flight_connection_parameters(airport, begin, end)),
                    TRUE, "None", resp)

get_airport_json(self, icao, resp) ==
    perform_request("GET", url_airport, Map([icao |-> icao]), FALSE, "None", resp)

\* Model.from_json called directly on a parsed JSON value
from_json(cls, payload) ==
    CASE cls = "States"           -> States_from_json(payload)
      [] cls = "StateVector"      -> StateVector_from_json(payload)
      [] cls = "FlightConnection" -> FlightConnection_from_json(payload)
      [] cls = "Airport"          -> Airport_from_json(payload)

----------------------------------------------------------------------------
(* The values the calls are made with and the transport answers with *)

FlightConnectionBody(icao24) ==
    Map([icao24 |-> Str(icao24),
         firstSeen |-> Num(1517),
         estDepartureAirport |-> None,
         lastSeen |-> Num(1518),
         estArrivalAirport |-> Str("EDDF"),
         callsign |-> Str("MSR785 "),
         estDepartureAirportHorizDistance |-> None,
         estDepartureAirportVertDistance |-> None,
         estArrivalAirportHorizDistance |-> Num(1593),
         estArrivalAirportVertDistance |-> Num(95),
         departureAirportCandidatesCount |-> Num(0),
         arrivalAirportCandidatesCount |-> Num(2)])

\* a record of the flights endpoints that lacks keys
PartialFlightConnectionBody == Map([icao24 |-> Str("0101be"), firstSeen |-> Num(1517)])

FlightElements ==
    {FlightConnectionBody("0101be"), FlightConnectionBody("3c4ad0"), PartialFlightConnectionBody}

StateVectorBody(icao24, n) ==
    List([i \in 1..n |->
        CASE i = 1  -> Str(icao24)
          [] i = 2  -> Str("DLH9LF ")
          [] i = 3  -> Str("Germany")
          [] i = 4  -> Num(1458)
          [] i = 5  -> Num(1459)
          [] i = 6  -> Num(6)
          [] i = 7  -> Num(50)
          [] i = 8  -> Num(9639)
          [] i = 9  -> Bool(FALSE)
          [] i = 10 -> Num(232)
          [] i = 11 -> Num(98)
          [] i = 12 -> Num(4)
          [] i = 13 -> None
          [] i = 14 -> Num(9547)
          [] i = 15 -> Str("1000")
          [] i = 16 -> Bool(TRUE)
          [] i = 17 -> Num(0)
          [] OTHER  -> Str("extra")])

StatesBody(states) == Map([time |-> Num(1458), states |-> states])

StatesBodies ==
    {StatesBody(List(<<StateVectorBody("3c6444", StateVectorArity),
                       StateVectorBody("4b1806", StateVectorArity)>>)),
     StatesBody(List(<<StateVectorBody("3c6444", StateVectorArity + 1)>>)),
     StatesBody(List(<<StateVectorBody("3c6444", StateVectorArity - 1)>>)),
     StatesBody(List(<<>>)),
     StatesBody(None)}

PositionBody ==
    Map([longitude |-> Num(37), latitude |-> Num(55), altitude |-> Num(189),
         reasonable |-> Bool(TRUE)])

AirportBody(position) ==
    Map([icao |-> Str("UUEE"), iata |-> Str("SVO"), name |-> Str("Sheremetyevo"),
         city |-> None, type |-> None, position |-> position,
         continent |-> Str("EU"), country |-> Str("RU"), region |-> Str("RU-MOS"),
         municipality |-> Str("Moscow"), gpsCode |-> Str("UUEE"),
         homepage |-> Str("http://www.svo.aero/en/"),
         wikipedia |-> Str("http://en.wikipedia.org/")])

AirportBodies == {AirportBody(PositionBody), AirportBody(None)}

\* the sequences over S of length 0..n
SeqsUpTo(S, n) == UNION {[1..k -> S] : k \in 0..n}

\* the JSON scalars, the falsy ones among them
Scalars == {None, Bool(FALSE), Bool(TRUE), Num(0), Num(5), Str(""), Str("a")}

\* the parsed bodies: scalars, mappings and sequences
Bodies ==
    Scalars \cup {EmptyMap} \cup FlightElements \cup StatesBodies \cup AirportBodies
    \cup {List(s) : s \in SeqsUpTo(FlightElements, MaxLen)}
    \cup {List(<<Num(5)>>)}

SuccessCodes == {200, 201, 204}
ErrorCodes == {202, 302, 400, 401, 403, 404, 500}

\* an empty body is no JSON document
EmptyResponse(status_code) == [status_code |-> status_code, content |-> 0, body |-> InvalidJSON]

Response(status_code, body) == [status_code |-> status_code, content |-> 1, body |-> body]

Responses ==
    {EmptyResponse(c) : c \in SuccessCodes \cup ErrorCodes}
    \cup {Response(c, b) : c \in SuccessCodes, b \in Bodies \cup {InvalidJSON}}
    \cup {Response(c, b) : c \in ErrorCodes, b \in {EmptyMap, InvalidJSON}}

Methods == SupportedMethods \cup {"PATCH"}

QueryParams == {None, EmptyMap, Map([airport |-> Str("EDDF")])}

JsonBodies == {None, Map([name |-> Str("x")])}

ResponseClasses == {"None", "States", "FlightConnection", "Airport"}

ProcessRequestArgs ==
    [method : Methods, path : {"api/"}, extra_params : QueryParams, json : JsonBodies,
     many : BOOLEAN, response_class : ResponseClasses]

Timestamps == {Num(0), Num(1517), Datetime(1517 * MicrosPerSecond + 500000), Datetime(-1500000)}

Icao24s == {None, Str("3c4ad0"), List(<<Str("3c4ad0"), Str("0101be")>>)}

\* the bounding boxes a caller can pass: none, or one that was constructed
BoundingBoxes ==
    {None} \cup
    {b.val : b \in {c \in {BoundingBox(45, 47, 5, 10), BoundingBox(-90, 90, -180, 180),
                            BoundingBox(45, 91, 5, 10)} : c.err = ""}}

GetStatesArgs ==
    [timestamp : Timestamps \cup {NotPassed}, icao24 : Icao24s, bbox : BoundingBoxes,
     json : BOOLEAN]

\* the times the calls are made at
Clock == {1600, 1700}

FlightsArgs == [airport : {Str("EDDF")}, begin : Timestamps, end : Timestamps, json : BOOLEAN]

AirportArgs == [icao : {Str("EDDF"), Str("UUEE")}, json : BOOLEAN]

\* the model classes with a from_json
ModelClasses == {"States", "StateVector", "FlightConnection", "Airport"}

\* a record of the flights endpoints with no null value
FullFlightConnectionBody ==
    Map([icao24 |-> Str("3c4ad0"),
         firstSeen |-> Num(1517),
         estDepartureAirport |-> Str("LEMD"),
         lastSeen |-> Num(1518),
         estArrivalAirport |-> Str("EDDF"),
         callsign |-> Str("DLH9LF "),
         estDepartureAirportHorizDistance |-> Num(1200),
         estDepartureAirportVertDistance |-> Num(80),
         estArrivalAirportHorizDistance |-> Num(1593),
         estArrivalAirportVertDistance |-> Num(95),
         departureAirportCandidatesCount |-> Num(1),
         arrivalAirportCandidatesCount |-> Num(2)])

\* state vector lists one element short of the fields, of exactly the fields,
\* and with elements after them
StateVectorLists ==
    {StateVectorBody("3c6444", n) : n \in (StateVectorArity - 1)..(StateVectorArity + MaxExtra)}

FromJsonPayloads == Bodies \cup StateVectorLists \cup {FullFlightConnectionBody}

FromJsonArgs == [cls : ModelClasses, payload : FromJsonPayloads]

\* bounds at, next to and between the limits of latitude and longitude
Coordinates == {-181, -180, -91, -90, 0, 90, 91, 180, 181}

BoundingBoxArgs ==
    [lamin : Coordinates, lamax : Coordinates, lomin : Coordinates, lomax : Coordinates]

ArgsOf(o) ==
    CASE o = "process_request"       -> ProcessRequestArgs
      [] o = "get_states"            -> GetStatesArgs
      [] o = "get_flight_arrivals"   -> FlightsArgs
      [] o = "get_flight_departures" -> FlightsArgs
      [] o = "get_airport"           -> AirportArgs
      [] o = "from_json"             -> FromJsonArgs
      [] o = "BoundingBox"           -> BoundingBoxArgs

\* the operations answered by the transport
TransportOperations ==
    {"process_request", "get_states", "get_flight_arrivals", "get_flight_departures",
     "get_airport"}

Operations == TransportOperations \cup {"from_json", "BoundingBox"}

\* no response: the operation does not reach the transport
NoResponse == [status_code |-> 0, content |-> 0, body |-> InvalidJSON]

ResponsesOf(o) == IF o \in TransportOperations THEN Responses ELSE {NoResponse}

NoOutcome == [kind |-> "none", value |-> None]

----------------------------------------------------------------------------
(* One call: the operation, its arguments and the transport's response are *)
(* drawn in the initial state, and the action is the whole call            *)

Init ==
    /\ op \in Operations
    /\ args \in ArgsOf(op)
    /\ response \in ResponsesOf(op)
    /\ calls = <<>>
    /\ access = <<>>
    /\ outcome = NoOutcome
    /\ ncalls = 0
    /\ ninvoked = 0
    /\ client = NewClient
    /\ held = None
    /\ clock \in Clock

\* a call that leaves the path it requested as the path of the arrivals
Finish_path_kept(o, a, r, e) ==
    /\ op' = o
    /\ args' = a
    /\ response' = r
    /\ calls' = e.calls
    /\ access' = e.access
    /\ outcome' = e.outcome
    /\ ncalls' = ncalls + Len(e.calls)
    /\ ninvoked' = ninvoked + 1
    /\ client' = (IF e.calls = <<>> THEN client
                  ELSE [client EXCEPT !.url_flights_arrival = e.calls[1].path])
    /\ UNCHANGED <<held, clock>>

\* a call that fails drops the client's transport
Finish_handler_dropped(o, a, r, e) ==
    /\ op' = o
    /\ args' = a
    /\ response' = r
    /\ calls' = e.calls
    /\ access' = e.access
    /\ outcome' = e.outcome
    /\ ncalls' = ncalls + Len(e.calls)
    /\ ninvoked' = ninvoked + 1
    /\ client' = (IF e.outcome.kind = "raise"
                  THEN [client EXCEPT !.request_handler = "none"] ELSE client)
    /\ UNCHANGED <<held, clock>>

\* the call (o, a), answered with r, ended as e
Finish(o, a, r, e) ==
    /\ op' = o
    /\ args' = a
    /\ response' = r
    /\ calls' = e.calls
    /\ access' = e.access
    /\ outcome' = e.outcome
    /\ ncalls' = ncalls + Len(e.calls)
    /\ ninvoked' = ninvoked + 1
    /\ UNCHANGED <<client, held, clock>>

\* the operation o run on the client self with the arguments a and answered
\* with r
Handle(self, o, a, r) ==
    CASE o = "process_request" ->
            process_request(a.method, a.path, a.extra_params, a.json,
                            a.many, a.response_class, r)
      [] o = "get_states" /\ ~a.json ->
            get_states(self, a.timestamp, a.icao24, a.bbox, r)
      [] o = "get_states" /\ a.json ->
            get_states_json(self, a.timestamp, a.icao24, a.bbox, r)
      [] o = "get_flight_arrivals" /\ ~a.json ->
            get_flight_arrivals(self, a.airport, a.begin, a.end, r)
      [] o = "get_flight_arrivals" /\ a.json ->
            get_flight_arrivals_json(self, a.airport, a.begin, a.end, r)
      [] o = "get_flight_departures" /\ ~a.json ->
            get_flight_departures(self, a.airport, a.begin, a.end, r)
      [] o = "get_flight_departures" /\ a.json ->
            get_flight_departures_json(self, a.airport, a.begin, a.end, r)
      [] o = "get_airport" /\ ~a.json ->
            get_airport(self, a.icao, r)
      [] o = "get_airport" /\ a.json ->
            get_airport_json(self, a.icao, r)

Call(o, a, r) == \E e \in {Handle(client, o, a, r)} : Finish(o, a, r, e)

\* a from_json called on its own: no transport call, the instance or the error
Deserialize(a) ==
    \E m \in {from_json(a.cls, a.payload)} :
        Finish("from_json", a, NoResponse,
               Ended(<<>>, <<>>, IF m.err # "" THEN Raise(Exception(m.err)) ELSE Return(m.val)))

\* the caller constructs a bounding box: it holds the new one when the
\* construction succeeds and keeps what it held when the construction raises
Construct(a) ==
    \E b \in {BoundingBox(a.lamin, a.lamax, a.lomin, a.lomax)} :
        /\ op' = "BoundingBox"
        /\ args' = a
        /\ response' = NoResponse
        /\ calls' = <<>>
        /\ access' = <<>>
        /\ outcome' = (IF b.err # "" THEN Raise(Exception(b.err)) ELSE Return(b.val))
        /\ held' = (IF b.err # "" THEN held ELSE b.val)
        /\ ninvoked' = ninvoked + 1
        /\ UNCHANGED <<ncalls, client, clock>>

ProcessRequest == ninvoked = 0 /\ op = "process_request" /\ Call(op, args, response)

GetStates == ninvoked = 0 /\ op = "get_states" /\ Call(op, args, response)

GetFlightArrivals == ninvoked = 0 /\ op = "get_flight_arrivals" /\ Call(op, args, response)

GetFlightDepartures == ninvoked = 0 /\ op = "get_flight_departures" /\ Call(op, args, response)

GetAirport == ninvoked = 0 /\ op = "get_airport" /\ Call(op, args, response)

FromJson == ninvoked = 0 /\ op = "from_json" /\ Deserialize(args)

ConstructBoundingBox == ninvoked = 0 /\ op = "BoundingBox" /\ Construct(args)

Next ==
    \/ ProcessRequest
    \/ GetStates
    \/ GetFlightArrivals
    \/ GetFlightDepartures
    \/ GetAirport
    \/ FromJson
    \/ ConstructBoundingBox

Spec == Init /\ [][Next]_vars

\* the call has ended
Done == ninvoked > 0

----------------------------------------------------------------------------
(* Sequences of calls on one client: each call draws its arguments and the *)
(* transport's response                                                    *)

SeqResponses ==
    {EmptyResponse(200), EmptyResponse(204),
     Response(200, List(<<FlightConnectionBody("0101be"), FlightConnectionBody("3c4ad0")>>)),
     Response(201, InvalidJSON),
     Response(404, EmptyMap),
     Response(500, InvalidJSON)}

SeqArgsOf(o) ==
    CASE o = "process_request" ->
            [method : Methods, path : {"api/"}, extra_params : {Map([airport |-> Str("EDDF")])},
             json : {None}, many : BOOLEAN, response_class : {"None", "FlightConnection"}]
      [] o = "get_states" ->
            [timestamp : {Num(1517)}, icao24 : {None, Str("3c4ad0")}, bbox : {None, held},
             json : BOOLEAN]
      [] o = "get_flight_arrivals" ->
            [airport : {Str("EDDF")}, begin : {Num(0)}, end : {Num(1517)}, json : BOOLEAN]
      [] o = "get_flight_departures" ->
            [airport : {Str("EDDF")}, begin : {Num(0)}, end : {Num(1517)}, json : {FALSE}]
      [] o = "get_airport" ->
            [icao : {Str("EDDF")}, json : {FALSE}]
      [] o = "BoundingBox" ->
            {[lamin |-> 45, lamax |-> 47, lomin |-> 5, lomax |-> 10],
             [lamin |-> 90, lamax |-> -90, lomin |-> 180, lomax |-> -180],
             [lamin |-> -91, lamax |-> 47, lomin |-> 5, lomax |-> 10],
             [lamin |-> 45, lamax |-> 91, lomin |-> 5, lomax |-> 10],
             [lamin |-> 45, lamax |-> 47, lomin |-> -181, lomax |-> 10],
             [lamin |-> 45, lamax |-> 47, lomin |-> 5, lomax |-> 181]}

InitSeq ==
    /\ op = "none"
    /\ args = None
    /\ response = EmptyResponse(200)
    /\ calls = <<>>
    /\ access = <<>>
    /\ outcome = NoOutcome
    /\ ncalls = 0
    /\ ninvoked = 0
    /\ client = NewClient
    /\ held = None
    /\ clock \in Clock

SeqProcessRequest ==
    /\ ninvoked < MaxInvocations
    /\ \E a \in SeqArgsOf("process_request"), r \in SeqResponses :
            Call("process_request", a, r)

SeqGetStates ==
    /\ ninvoked < MaxInvocations
    /\ \E a \in SeqArgsOf("get_states"), r \in SeqResponses : Call("get_states", a, r)

SeqGetFlightArrivals ==
    /\ ninvoked < MaxInvocations
    /\ \E a \in SeqArgsOf("get_flight_arrivals"), r \in SeqResponses :
            Call("get_flight_arrivals", a, r)

SeqGetFlightDepartures ==
    /\ ninvoked < MaxInvocations
    /\ \E a \in SeqArgsOf("get_flight_departures"), r \in SeqResponses :
            Call("get_flight_departures", a, r)

SeqGetAirport ==
    /\ ninvoked < MaxInvocations
    /\ \E a \in SeqArgsOf("get_airport"), r \in SeqResponses : Call("get_airport", a, r)

SeqConstructBoundingBox ==
    /\ ninvoked < MaxInvocations
    /\ \E a \in SeqArgsOf("BoundingBox") : Construct(a)

NextSeq ==
    \/ SeqProcessRequest
    \/ SeqGetStates
    \/ SeqGetFlightArrivals
    \/ SeqGetFlightDepartures
    \/ SeqGetAirport
    \/ SeqConstructBoundingBox

SpecSeq == InitSeq /\ [][NextSeq]_vars

----------------------------------------------------------------------------
(* What the last call was, read from the state *)

IsProcessRequest == Done /\ op = "process_request"

IsClientCall ==
    Done /\ op \in {"get_states", "get_flight_arrivals", "get_flight_departures", "get_airport"}

\* the HTTP method of the last call
MethodOf(o, a) ==
    CASE o = "process_request" -> a.method
      [] o \in {"get_states", "get_flight_arrivals", "get_flight_departures", "get_airport"}
            -> "GET"
      [] OTHER -> "none"

\* the many flag and the result type the last call ran with
ManyOf(o, a) ==
    CASE o = "process_request" -> a.many
      [] o \in {"get_flight_arrivals", "get_flight_departures"} -> TRUE
      [] OTHER -> FALSE

ClassOf(o, a) ==
    CASE o = "process_request" -> a.response_class
      [] o \in {"get_flight_arrivals", "get_flight_departures"} /\ ~a.json -> "FlightConnection"
      [] o = "get_states" /\ ~a.json -> "States"
      [] o = "get_airport" /\ ~a.json -> "Airport"
      [] OTHER -> "None"

\* the last call reached the transport
Answered == Done /\ MethodOf(op, args) \in {"GET", "POST", "PUT", "DELETE"}

SuccessStatus == response.status_code \in {200, 201, 204}

\* the response has a body and it is JSON
HasParsedBody == response.content > 0 /\ response.body # InvalidJSON

Raised(cls) == outcome.kind = "raise" /\ outcome.value.cls = cls

----------------------------------------------------------------------------
(* The claims *)

\* C1: for every supported method, a response whose status code is not 200,
\* 201 or 204 ends process_request with the APIError built from that response
\* and no value; a response with status 200, 201 or 204 never ends it with an
\* APIError.
C1_StatusDecidesAPIError ==
    (IsProcessRequest /\ Answered) =>
        IF response.status_code \notin {200, 201, 204}
        THEN outcome = Raise(APIError_from_response(response))
        ELSE ~Raised("APIError")

C1_Witness ==
    /\ IsProcessRequest
    /\ args.method = "DELETE"
    /\ response.status_code = 202
    /\ Raised("APIError")
    /\ outcome.value.status_code = 202

\* C2: in any sequence of calls, each call makes exactly one call on the
\* transport when its method is GET, POST, PUT or DELETE, whether it ends
\* with a value or with an error, and none when the method is unsupported.
C2_OneTransportCallPerInvocation ==
    [][ninvoked' = ninvoked + 1 =>
        /\ Len(calls') = (IF MethodOf(op', args') \in {"GET", "POST", "PUT", "DELETE"}
                          THEN 1 ELSE 0)
        /\ ncalls' = ncalls + Len(calls')]_vars

C2_Witness ==
    /\ ninvoked = 3
    /\ ncalls = 2
    /\ Raised("APIError")
    /\ Len(calls) = 1

\* C3: with no result type, a success status and a non-empty JSON body,
\* process_request returns the parsed JSON value of the response unchanged,
\* whatever the many flag and whatever the shape of the body.
C3_RawPassthrough ==
    (IsProcessRequest /\ Answered /\ SuccessStatus /\ HasParsedBody
        /\ args.response_class = "None")
    => outcome = Return(response.body)

\* C4: with many=True and a result type, a body that is a sequence of n
\* elements gives a sequence of n typed objects, the i-th being the
\* deserialization of the i-th element; get_flight_arrivals and
\* get_flight_departures so return the records in the server's order.
C4_ManyKeepsOrder ==
    (Answered /\ SuccessStatus /\ HasParsedBody
        /\ ManyOf(op, args) /\ ClassOf(op, args) # "None"
        /\ response.body.t = "list"
        /\ \A i \in 1..Len(response.body.v) :
                deserialize(ClassOf(op, args), response.body.v[i]).err = "")
    => /\ outcome.kind = "return"
       /\ outcome.value.t = "list"
       /\ Len(outcome.value.v) = Len(response.body.v)
       /\ \A i \in 1..Len(response.body.v) :
                outcome.value.v[i] = deserialize(ClassOf(op, args), response.body.v[i]).val

C4_Witness ==
    /\ Done
    /\ op = "get_flight_departures"
    /\ response.body =
            List(<<FlightConnectionBody("3c4ad0"), FlightConnectionBody("0101be")>>)
    /\ outcome.kind = "return"
    /\ Len(outcome.value.v) = 2
    /\ outcome.value.v[1].f.icao24 = Str("3c4ad0")
    /\ outcome.value.v[2].f.icao24 = Str("0101be")

\* what deserializing the body into the result type gives
Deserialized(response_class, body) ==
    IF deserialize(response_class, body).err = ""
    THEN Return(deserialize(response_class, body).val)
    ELSE Raise(Exception(deserialize(response_class, body).err))

\* C5: with many=False and a result type, a success status and a non-empty
\* JSON body, the result is the deserialization of the parsed body into the
\* result type, for every parsed body, the falsy ones included.
C5_SingleIsDeserialized ==
    (IsProcessRequest /\ Answered /\ SuccessStatus /\ HasParsedBody
        /\ ~args.many /\ args.response_class # "None")
    => outcome = Deserialized(args.response_class, response.body)

InTrace(ev) == \E i \in 1..Len(access) : access[i] = ev

\* C6: a success status with an empty body returns None, for every method,
\* many flag and result type, and neither parses JSON nor deserializes; a
\* success status with a non-empty body parses the body as JSON.
C6_EmptyBodyIsNone ==
    (Answered /\ SuccessStatus) =>
        IF response.content = 0
        THEN outcome = Return(None) /\ ~InTrace("json") /\ ~InTrace("deserialize")
        ELSE InTrace("json")

C6_Witness ==
    /\ IsProcessRequest
    /\ args.method = "PUT"
    /\ args.many
    /\ args.response_class = "FlightConnection"
    /\ response.status_code = 204
    /\ response.content = 0
    /\ outcome = Return(None)

\* the body is empty, or parses to an empty list
EmptyOrAbsentBody ==
    response.content = 0 \/ (response.content > 0 /\ response.body = List(<<>>))

\* C7 as claimed: with many=True, a body that is empty or parses to an empty
\* list gives None.
C7_ManyEmptyIsNone ==
    (Answered /\ SuccessStatus /\ ManyOf(op, args) /\ EmptyOrAbsentBody)
    => outcome = Return(None)

\* C7: with many=True, a body that is empty or parses to an empty list
\* raises nothing and gives the parsed body itself: None for an empty body,
\* the empty list for a body that parses to an empty list.
C7_ManyEmptyIsTheParsedBody ==
    (Answered /\ SuccessStatus /\ ManyOf(op, args) /\ EmptyOrAbsentBody)
    => outcome = Return(IF response.content = 0 THEN None ELSE List(<<>>))

C7_Witness ==
    /\ Done
    /\ op = "get_flight_arrivals"
    /\ response.status_code = 200
    /\ response.content > 0
    /\ response.body = List(<<>>)
    /\ outcome = Return(List(<<>>))

\* C8: a method that is none of GET, POST, PUT, DELETE ends process_request
\* with the unsupported-method error (the built-in NotImplementedError),
\* before any call on the transport.
C8_UnsupportedMethodRaises ==
    (IsProcessRequest /\ args.method \notin {"GET", "POST", "PUT", "DELETE"})
    => outcome = Raise(Exception("NotImplementedError")) /\ calls = <<>> /\ access = <<>>

C8_Witness ==
    /\ IsProcessRequest
    /\ args.method = "PATCH"
    /\ Raised("NotImplementedError")

VerbOf(method) ==
    CASE method = "GET" -> "get"
      [] method = "POST" -> "post"
      [] method = "PUT" -> "put"
      [] method = "DELETE" -> "delete"

\* C10: each supported method is routed to the transport operation of the
\* same verb; a GET carries the query parameters and the JSON body, a POST,
\* PUT or DELETE carries the JSON body only, extra_params are not passed.
C10_Routing ==
    (IsProcessRequest /\ Answered) =>
        /\ Len(calls) = 1
        /\ calls[1].verb = VerbOf(args.method)
        /\ calls[1].path = args.path
        /\ calls[1].json = args.json
        /\ calls[1].params =
                IF args.method = "GET"
                THEN (IF args.extra_params = None THEN EmptyMap ELSE args.extra_params)
                ELSE NotPassed

C10_Witness ==
    /\ IsProcessRequest
    /\ args.method = "PUT"
    /\ args.extra_params = Map([airport |-> Str("EDDF")])
    /\ args.json # None
    /\ calls = <<[verb |-> "put", path |-> "api/", params |-> NotPassed, json |-> args.json]>>

\* C11: a get_states call transmits a query whose keys are exactly time, plus
\* icao24 if and only if an icao24 argument was given, plus lamin, lamax,
\* lomin and lomax if and only if a bounding box was given; icao24 carries the
\* argument and each bound carries the bounding box's field of that name.
C11_StatesQueryKeys ==
    (Done /\ op = "get_states") =>
        /\ Len(calls) = 1
        /\ calls[1].params.t = "map"
        /\ DOMAIN calls[1].params.v =
                {"time"}
                \cup (IF args.icao24 # None THEN {"icao24"} ELSE {})
                \cup (IF args.bbox # None THEN {"lamin", "lamax", "lomin", "lomax"} ELSE {})
        /\ args.icao24 # None => calls[1].params.v["icao24"] = args.icao24
        /\ args.bbox # None =>
                \A k \in {"lamin", "lamax", "lomin", "lomax"} :
                    calls[1].params.v[k] = args.bbox.f[k]

C11_Witness ==
    /\ Done
    /\ op = "get_states"
    /\ args.icao24 = List(<<Str("3c4ad0"), Str("0101be")>>)
    /\ args.bbox # None
    /\ args.bbox.f.lamin # args.bbox.f.lamax
    /\ DOMAIN calls[1].params.v = {"time", "icao24", "lamin", "lamax", "lomin", "lomax"}
    /\ calls[1].params.v["lamax"] = Num(47)

\* the whole seconds of us microseconds since the epoch, the fraction dropped
WholeSeconds(us) ==
    CHOOSE n \in -2..1600 :
        /\ us >= 0 => (n * MicrosPerSecond <= us /\ us < (n + 1) * MicrosPerSecond)
        /\ us < 0 => ((n - 1) * MicrosPerSecond < us /\ us <= n * MicrosPerSecond)

\* the value a timestamp argument is transmitted as
Transmitted(timestamp) ==
    IF timestamp.t = "datetime" THEN Num(WholeSeconds(timestamp.us)) ELSE timestamp

\* C12: get_states called with a calendar timestamp transmits as time the
\* integer seconds since the epoch of that timestamp, the fraction truncated;
\* called with an integer it transmits that integer unchanged.
C12_StatesTime ==
    (Done /\ op = "get_states" /\ args.timestamp.t \in {"datetime", "num"}) =>
        /\ Len(calls) = 1
        /\ calls[1].params.v["time"] = Transmitted(args.timestamp)

C12_Witness ==
    /\ Done
    /\ op = "get_states"
    /\ args.timestamp = Datetime(-1500000)
    /\ calls[1].params.v["time"] = Num(-1)

\* C13: a get_flight_arrivals or get_flight_departures call transmits a query
\* whose keys are exactly airport, begin and end; airport is the argument, and
\* begin and end are each the argument itself when it is an integer and its
\* truncated seconds since the epoch when it is a calendar timestamp, whatever
\* the other one is.
C13_FlightsQuery ==
    (Done /\ op \in {"get_flight_arrivals", "get_flight_departures"}) =>
        /\ Len(calls) = 1
        /\ calls[1].params.t = "map"
        /\ DOMAIN calls[1].params.v = {"airport", "begin", "end"}
        /\ calls[1].params.v["airport"] = args.airport
        /\ calls[1].params.v["begin"] = Transmitted(args.begin)
        /\ calls[1].params.v["end"] = Transmitted(args.end)

C13_Witness ==
    /\ Done
    /\ op = "get_flight_arrivals"
    /\ args.begin = Num(0)
    /\ args.end = Datetime(1517 * MicrosPerSecond + 500000)
    /\ calls[1].params.v["begin"] = Num(0)
    /\ calls[1].params.v["end"] = Num(1517)

\* the transport calls the typed variant of the last client call makes
TypedCalls ==
    CASE op = "get_states" ->
            get_states(client, args.timestamp, args.icao24, args.bbox, response).calls
      [] op = "get_flight_arrivals" ->
            get_flight_arrivals(client, args.airport, args.begin, args.end, response).calls
      [] op = "get_flight_departures" ->
            get_flight_departures(client, args.airport, args.begin, args.end, response).calls
      [] op = "get_airport" ->
            get_airport(client, args.icao, response).calls

\* C14: get_states, get_flight_arrivals, get_flight_departures and get_airport
\* called with json=True transmit the request their typed variant transmits,
\* and on a success response with a JSON body they return the parsed body
\* unchanged.
C14_RawVariant ==
    (IsClientCall /\ args.json) =>
        /\ calls = TypedCalls
        /\ (SuccessStatus /\ HasParsedBody) => outcome = Return(response.body)

\* the body is an airport record whose position is a position record
IsAirportPayload(body) ==
    /\ body.t = "map"
    /\ AirportKeys \subseteq DOMAIN body.v
    /\ body.v["position"].t = "map"
    /\ PositionKeys \subseteq DOMAIN body.v["position"].v

InRange(lamin, lamax, lomin, lomax) ==
    /\ lamin \in -90..90
    /\ lamax \in -90..90
    /\ lomin \in -180..180
    /\ lomax \in -180..180

\* C16: constructing a BoundingBox succeeds, with the four bounds as given, if
\* and only if lamin and lamax are in [-90, 90] and lomin and lomax are in
\* [-180, 180], the limits included and whatever the order of a minimum and
\* its maximum; otherwise the construction ends with a ValueError.
C16_BoundingBoxValidation ==
    (Done /\ op = "BoundingBox") =>
        IF InRange(args.lamin, args.lamax, args.lomin, args.lomax)
        THEN outcome = Return(Obj("BoundingBox",
                                  [lamin |-> Num(args.lamin), lamax |-> Num(args.lamax),
                                   lomin |-> Num(args.lomin), lomax |-> Num(args.lomax)]))
        ELSE Raised("ValueError")

C16_Witness ==
    /\ Done
    /\ op = "BoundingBox"
    /\ args = [lamin |-> 90, lamax |-> -90, lomin |-> 180, lomax |-> -180]
    /\ outcome.kind = "return"
    /\ outcome.value.f.lamin = Num(90)
    /\ outcome.value.f.lomax = Num(-180)

\* the bounds of a constructed bounding box are within the limits
BoxInRange(bbox) ==
    InRange(bbox.f.lamin.v, bbox.f.lamax.v, bbox.f.lomin.v, bbox.f.lomax.v)

\* the bounds the last call transmitted are within the limits
SentInRange ==
    \A i \in 1..Len(calls) :
        /\ {"lamin", "lamax"} \cap DOMAIN calls[i].params.v # {} =>
                \A k \in {"lamin", "lamax"} : calls[i].params.v[k].v \in -90..90
        /\ {"lomin", "lomax"} \cap DOMAIN calls[i].params.v # {} =>
                \A k \in {"lomin", "lomax"} : calls[i].params.v[k].v \in -180..180

\* C17: in every sequence of constructions and calls, a construction with a
\* bound out of range ends with ValueError, makes no transport call and leaves
\* the caller without a new box; so the box the caller holds, every box
\* passed to get_states and every lamin, lamax, lomin and lomax transmitted
\* are within the limits.
C17_InvalidBoxNeverSent ==
    /\ [](held # None => BoxInRange(held))
    /\ []((Done /\ op = "get_states" /\ args.bbox # None) =>
            (BoxInRange(args.bbox) /\ SentInRange))
    /\ [][(ninvoked' = ninvoked + 1 /\ op' = "BoundingBox"
            /\ ~InRange(args'.lamin, args'.lamax, args'.lomin, args'.lomax)) =>
                /\ outcome' = Raise(Exception("ValueError"))
                /\ calls' = <<>>
                /\ ncalls' = ncalls
                /\ held' = held]_vars

C17_Witness ==
    /\ Done
    /\ op = "BoundingBox"
    /\ args.lomin = -181
    /\ Raised("ValueError")
    /\ calls = <<>>
    /\ ncalls > 0
    /\ held # None

\* C18: in every sequence of calls, a client call sends the request and ends
\* with the outcome that the same call, with the same arguments and answered
\* with the same response, has as the first call on a newly constructed
\* client: neither depends on the calls made before.
C18_Stateless ==
    [][(ninvoked' = ninvoked + 1
        /\ op' \in {"get_states", "get_flight_arrivals", "get_flight_departures",
                    "get_airport"}) =>
            /\ calls' = Handle(NewClient, op', args', response').calls
            /\ outcome' = Handle(NewClient, op', args', response').outcome]_vars

C18_Witness ==
    /\ Done
    /\ ninvoked = MaxInvocations
    /\ ncalls = MaxInvocations - 1
    /\ op = "get_flight_arrivals"
    /\ ~args.json
    /\ calls[1].path = "api/flights/arrival/"
    /\ response.status_code = 200
    /\ outcome.kind = "return"
    /\ outcome.value.t = "list"
    /\ Len(outcome.value.v) = 2

\* C19: after any sequence of client calls, ended with a value or with an
\* error, the client's transport and its three endpoint paths are the ones
\* set at construction.
C19_ClientUnchanged ==
    /\ client.request_handler = "request_handler"
    /\ client.url_states = "api/states/all/"
    /\ client.url_flights_arrival = "api/flights/arrival/"
    /\ client.url_flights_departure = "api/flights/departure/"

C19_Witness ==
    /\ ninvoked = MaxInvocations
    /\ ncalls = MaxInvocations
    /\ op = "get_flight_departures"
    /\ Raised("APIError")
    /\ client = NewClient

\* the payload is {time, states} with a number as time and, as states, a list
\* of lists that each have a value for every field of a state vector
IsStatesPayload(payload) ==
    /\ payload.t = "map"
    /\ {"time", "states"} \subseteq DOMAIN payload.v
    /\ payload.v["time"].t = "num"
    /\ payload.v["states"].t = "list"
    /\ \A i \in 1..Len(payload.v["states"].v) :
            /\ payload.v["states"].v[i].t = "list"
            /\ Len(payload.v["states"].v[i].v) >= StateVectorArity

\* C20: States.from_json of a payload {time, states} returns a States whose
\* time_in_sec is the payload's time and whose states has the length of the
\* payload's states list, its i-th element being the StateVector built from
\* the i-th inner list; with an empty states list it has no state vector.
C20_StatesFromJson ==
    (Done /\ op = "from_json" /\ args.cls = "States" /\ IsStatesPayload(args.payload)) =>
        /\ outcome.kind = "return"
        /\ outcome.value.t = "obj"
        /\ outcome.value.cls = "States"
        /\ outcome.value.f.time_in_sec = args.payload.v["time"]
        /\ outcome.value.f.states.t = "list"
        /\ Len(outcome.value.f.states.v) = Len(args.payload.v["states"].v)
        /\ \A i \in 1..Len(args.payload.v["states"].v) :
                outcome.value.f.states.v[i] =
                    StateVector_from_json(args.payload.v["states"].v[i]).val

C20_Witness ==
    /\ Done
    /\ op = "from_json"
    /\ args.cls = "States"
    /\ IsStatesPayload(args.payload)
    /\ Len(args.payload.v["states"].v) = 2
    /\ outcome.kind = "return"
    /\ outcome.value.f.time_in_sec = Num(1458)
    /\ outcome.value.f.states.v[1].f.icao24 = Str("3c6444")
    /\ outcome.value.f.states.v[2].f.icao24 = Str("4b1806")

\* the named fields of a StateVector, in the order of the API's list
StateVectorFields ==
    <<"icao24", "callsign", "origin_country", "time_position_in_sec",
      "last_contact_in_sec", "longitude", "latitude", "baro_altitude_in_m", "on_ground",
      "velocity_in_m_per_sec", "true_track", "vertical_rate_in_m_per_sec", "sensors",
      "geo_altitude_in_m", "squawk", "spi", "position_source">>

\* the last call was StateVector.from_json of a list of n elements
StateVectorFromList(n) ==
    /\ Done
    /\ op = "from_json"
    /\ args.cls = "StateVector"
    /\ args.payload.t = "list"
    /\ Len(args.payload.v) = n

\* C21: StateVector.from_json of a list of 17 values returns the StateVector
\* constructed from those values: its i-th named field, in the order icao24,
\* callsign, origin_country, time_position, last_contact, longitude,
\* latitude, baro_altitude, on_ground, velocity, true_track, vertical_rate,
\* sensors, geo_altitude, squawk, spi, position_source, is the i-th element
\* of the list, and nothing is left over.
C21_StateVectorByPosition ==
    StateVectorFromList(17) =>
        /\ outcome.kind = "return"
        /\ outcome.value.t = "obj"
        /\ outcome.value.cls = "StateVector"
        /\ DOMAIN outcome.value.f = {StateVectorFields[i] : i \in 1..17} \cup {"rest_args"}
        /\ \A i \in 1..17 : outcome.value.f[StateVectorFields[i]] = args.payload.v[i]
        /\ outcome.value.f["rest_args"] = <<>>

C21_Witness ==
    /\ StateVectorFromList(17)
    /\ outcome.kind = "return"
    /\ outcome.value.f["icao24"] = Str("3c6444")
    /\ outcome.value.f["longitude"] = Num(6)
    /\ outcome.value.f["latitude"] = Num(50)
    /\ outcome.value.f["position_source"] = Num(0)

\* C22: StateVector.from_json of a list of more than 17 elements returns a
\* StateVector whose 17 named fields are the first 17 elements, as for the
\* list of those 17 alone; the elements after them change no named field.
C22_TrailingElementsTolerated ==
    \A n \in 18..(17 + MaxExtra) :
        StateVectorFromList(n) =>
            /\ outcome.kind = "return"
            /\ outcome.value.t = "obj"
            /\ outcome.value.cls = "StateVector"
            /\ \A i \in 1..17 : outcome.value.f[StateVectorFields[i]] = args.payload.v[i]
            /\ \A i \in 1..17 :
                    outcome.value.f[StateVectorFields[i]] =
                        StateVector_from_json(List(SubSeq(args.payload.v, 1, 17))).val.f[
                            StateVectorFields[i]]

C22_Witness ==
    /\ StateVectorFromList(17 + MaxExtra)
    /\ outcome.kind = "return"
    /\ outcome.value.f["icao24"] = Str("3c6444")
    /\ outcome.value.f["position_source"] = Num(0)
    /\ Len(outcome.value.f["rest_args"]) = MaxExtra

\* the snake_case field that carries the value of each camelCase key
FieldOfKey ==
    [icao24 |-> "icao24",
     firstSeen |-> "first_seen",
     estDepartureAirport |-> "est_departure_airport",
     lastSeen |-> "last_seen",
     estArrivalAirport |-> "est_arrival_airport",
     callsign |-> "callsign",
     estDepartureAirportHorizDistance |-> "est_departure_airport_horiz_distance",
     estDepartureAirportVertDistance |-> "est_departure_airport_vert_distance",
     estArrivalAirportHorizDistance |-> "est_arrival_airport_horiz_distance",
     estArrivalAirportVertDistance |-> "est_arrival_airport_vert_distance",
     departureAirportCandidatesCount |-> "departure_airport_candidates_count",
     arrivalAirportCandidatesCount |-> "arrival_airport_candidates_count"]

\* the last call was FlightConnection.from_json of a mapping with the twelve keys
FlightConnectionFromRecord ==
    /\ Done
    /\ op = "from_json"
    /\ args.cls = "FlightConnection"
    /\ args.payload.t = "map"
    /\ DOMAIN FieldOfKey \subseteq DOMAIN args.payload.v

\* C23: FlightConnection.from_json of a mapping with the twelve camelCase keys
\* returns the FlightConnection constructed from their values: it has the
\* twelve snake_case fields and no other, each with the value of its key,
\* unchanged, a null included.
C23_FlightConnectionByKey ==
    FlightConnectionFromRecord =>
        /\ outcome.kind = "return"
        /\ outcome.value.t = "obj"
        /\ outcome.value.cls = "FlightConnection"
        /\ DOMAIN outcome.value.f = {FieldOfKey[k] : k \in DOMAIN FieldOfKey}
        /\ \A k \in DOMAIN FieldOfKey : outcome.value.f[FieldOfKey[k]] = args.payload.v[k]

C23_Witness ==
    /\ FlightConnectionFromRecord
    /\ args.payload.v["icao24"] = Str("0101be")
    /\ args.payload.v["estDepartureAirport"] = None
    /\ outcome.kind = "return"
    /\ outcome.value.f["icao24"] = Str("0101be")
    /\ outcome.value.f["est_departure_airport"] = None
    /\ outcome.value.f["first_seen"] = Num(1517)
    /\ outcome.value.f["last_seen"] = Num(1518)

\* C24: get_states called without a timestamp transmits as time the current
\* time in seconds since the epoch.
C24_DefaultTimeIsNow ==
    (Done /\ op = "get_states" /\ args.timestamp = NotPassed) =>
        /\ Len(calls) = 1
        /\ calls[1].params.v["time"] = Num(clock)

\* the place of an access in the order of the steps
StepOf(ev) ==
    CASE ev = "status_code" -> 1
      [] ev = "content"     -> 2
      [] ev = "json"        -> 3
      [] ev = "deserialize" -> 4

ManyOfList ==
    /\ Answered
    /\ SuccessStatus
    /\ HasParsedBody
    /\ ManyOf(op, args)
    /\ ClassOf(op, args) # "None"
    /\ response.body.t = "list"

\* C26: no call returns a generator, and a call with many=True and a response
\* class, answered with a list, either returns a list with one instance for
\* every element of the body or, when the deserialization of some element
\* fails, ends with that failure and returns nothing.
C26_ManyIsEagerAllOrNothing ==
    /\ (Done /\ outcome.kind = "return") => outcome.value.t # "gen"
    /\ ManyOfList =>
        IF \E i \in 1..Len(response.body.v) :
                deserialize(ClassOf(op, args), response.body.v[i]).err # ""
        THEN /\ outcome.kind = "raise"
             /\ \E i \in 1..Len(response.body.v) :
                    /\ outcome.value =
                            Exception(deserialize(ClassOf(op, args), response.body.v[i]).err)
                    /\ \A j \in 1..(i - 1) :
                            deserialize(ClassOf(op, args), response.body.v[j]).err = ""
        ELSE /\ outcome.kind = "return"
             /\ outcome.value.t = "list"
             /\ Len(outcome.value.v) = Len(response.body.v)
             /\ \A i \in 1..Len(response.body.v) : outcome.value.v[i].t = "obj"

C26_Witness ==
    /\ IsProcessRequest
    /\ ManyOfList
    /\ args.response_class = "FlightConnection"
    /\ response.body = List(<<FlightConnectionBody("0101be"), PartialFlightConnectionBody>>)
    /\ access = <<"status_code", "content", "json", "deserialize", "deserialize">>
    /\ Raised("KeyError")

\* the path each client operation is bound to
FixedPath ==
    [get_states |-> "api/states/all/",
     get_flight_arrivals |-> "api/flights/arrival/",
     get_flight_departures |-> "api/flights/departure/"]

\* C27: in every sequence of calls, a get_states, get_flight_arrivals or
\* get_flight_departures call issues one request, with the verb GET and the
\* path of that operation: 'api/states/all/', 'api/flights/arrival/' and
\* 'api/flights/departure/' respectively; it issues no POST, PUT or DELETE
\* and never uses the path of another operation. A GET is a call of the
\* transport's get.
C27_GetOnFixedPath ==
    (Done /\ op \in DOMAIN FixedPath) =>
        /\ Len(calls) = 1
        /\ \A i \in 1..Len(calls) :
            /\ calls[i].verb = "get"
            /\ calls[i].path = FixedPath[op]

C27_Witness ==
    /\ Done
    /\ ninvoked = MaxInvocations
    /\ ncalls >= 2
    /\ op = "get_flight_arrivals"
    /\ calls[1].verb = "get"
    /\ calls[1].path = "api/flights/arrival/"
    /\ Raised("APIError")

====
